---- MODULE Spec2Model ----
(***************************************************************************)
(* State-machine model of the lightweight D2S client (d2s_qgis_client.py). *)
(*                                                                         *)
(* The model follows caller threads through the client's operations:       *)
(* Auth.login, APIClient.__init__ (directly or through Workspace),         *)
(* APIClient._refresh_access_token, APIClient.make_get_request, the list   *)
(* operations of Workspace, Project and Flight, and the run methods of the *)
(* workers (d2s_browser_workers.py).  Every network exchange is split into *)
(* "request sent" and "response handled", the server's answer being a      *)
(* nondeterministic input.                                                 *)
(*                                                                         *)
(* Specifications: Spec (one caller; login, client construction, refresh,  *)
(* GET), SpecList (one caller; the resource hierarchy and the workers),    *)
(* SpecDate (Flight construction alone) and SpecConc (two workers sharing  *)
(* one session).                                                           *)
(*                                                                         *)
(* Scope: the cookie jars below hold the cookies the client code stores    *)
(* with cookies.set() and removes with cookies.clear(), plus the cookies   *)
(* of a session the caller built elsewhere.  A response carries at most    *)
(* one cookie per name.                                                    *)
(***************************************************************************)
EXTENDS Integers, Sequences, FiniteSets, TLC

VARIABLES
    baseUrl,   \* the base_url given to Auth, APIClient and Workspace
    jar,       \* jar[s]: the cookies of session s (a set of cookie records)
    apiKey,    \* apiKey[s]: session.api_key, "unset" until login assigns it
    clients,   \* sessions on which an APIClient has been constructed
    pc,        \* pc[p]: where caller p is inside its current operation
    call,      \* call[p]: the current (or last) operation of caller p
    result,    \* result[p]: how the last finished operation of p ended
    objects,   \* the Project, Flight and DataProduct objects created so far
    frame,     \* frame[p]: the list operation / worker run p is in
    hist       \* history: overlapping calls and expired sessions

vars == <<baseUrl, jar, apiKey, clients, pc, call, result, objects, frame, hist>>

----------------------------------------------------------------------------
(* Bounds and input sets *)

\* token values the server hands out are 1..MaxToken; 0 stands for "cookie absent"
MaxToken == 2

\* caller threads; "w2" runs only where a specification starts it
Procs == {"w1", "w2"}

\* "auth" is Auth.session (d2s_qgis_client.py:27); "ext" is a requests.Session
\* the caller built itself and passes to APIClient / Workspace
Sessions == {"auth", "ext"}

CookieNames == {"access_token", "refresh_token"}

\* status codes of a final (post-redirect) response
Statuses == {200, 204, 304, 401, 500}

TokenEndpoint == "/api/v1/auth/access-token"
RefreshEndpoint == "/api/v1/auth/refresh-token"
UserEndpoint == "/api/v1/users/current"
ProjectsEndpoint == "/api/v1/projects"

\* endpoints a caller hands to make_get_request
Endpoints == {ProjectsEndpoint, RefreshEndpoint}

\* the params keyword argument: {} or {"has_raster": True}
NoParams == {}
RasterParams == {<<"has_raster", TRUE>>}
ParamSets == {NoParams, RasterParams}

BaseUrls == {"http://localhost:8000", "http://127.0.0.1:8000/",
             "https://D2S.Example.org", "d2s.example.org"}

\* urlparse(base_url).hostname or "": the host part in lower case, without
\* port; None (hence "") when the URL has no scheme
Hostname(url) ==
    CASE url = "http://localhost:8000" -> "localhost"
      [] url = "http://127.0.0.1:8000/" -> "127.0.0.1"
      [] url = "https://D2S.Example.org" -> "d2s.example.org"
      [] url = "d2s.example.org" -> ""

----------------------------------------------------------------------------
(* Cookies *)

\* a cookie of a jar; domain "" is a cookie stored without a domain
Cookie(name, value, domain, path, expired) ==
    [name |-> name, value |-> value, domain |-> domain, path |-> path,
     expired |-> expired]

\* a jar keeps one cookie per (domain, path, name)
SameKey(c, d) == c.name = d.name /\ c.domain = d.domain /\ c.path = d.path

\* variant: the domain is set for every host
ScopedCookieAlwaysDomain(host, name, value) == Cookie(name, value, host, "/", FALSE)

\* the cookie that session.cookies.set(name, value, [domain=host,] path="/")
\* stores: no domain for the loopback hosts, domain=host otherwise; it has
\* no expiry date
ScopedCookie(host, name, value) ==
    IF host = "localhost" \/ host = "127.0.0.1"
    THEN Cookie(name, value, "", "/", FALSE)
    ELSE Cookie(name, value, host, "/", FALSE)

\* session.cookies.set(...): replaces the cookie of the same key
SetCookie(j, c) == {d \in j : ~SameKey(c, d)} \cup {c}

\* any(cookie.name == name for cookie in session.cookies)
HasCookie(j, name) == \E c \in j : c.name = name

\* the jars of a session the caller built itself
ExtJars == {
    {Cookie("access_token", 1, "d2s.example.org", "/", TRUE)},
    {Cookie("refresh_token", 1, "d2s.example.org", "/", FALSE)},
    {Cookie("access_token", 1, "", "/api", FALSE),
     Cookie("refresh_token", 1, "", "/api", FALSE)} }

----------------------------------------------------------------------------
(* Responses (inputs) *)

\* the cookies of a token or refresh response: name -> value, 0 when absent
CookieSets == [CookieNames -> 0..MaxToken]
NoCookies == [n \in CookieNames |-> 0]

\* fail = TRUE: the transport raised (no response)
TransportFailure == [fail |-> TRUE, status |-> 0, json |-> FALSE, cookies |-> NoCookies]

\* answers to a GET: status and whether the body parses as JSON (the body of
\* a 4xx/5xx answer is never read)
GetResponses ==
    {TransportFailure} \cup
    {r \in [fail : {FALSE}, status : Statuses, json : BOOLEAN, cookies : {NoCookies}] :
        r.status >= 400 => ~r.json}

\* answers of the token and refresh endpoints: status and cookies; an answer
\* other than 200 carries no cookie or token 1 under both names
AuthResponses ==
    {TransportFailure} \cup
    {r \in [fail : {FALSE}, status : Statuses, json : {TRUE}, cookies : CookieSets] :
        r.status # 200 => r.cookies \in {NoCookies, [n \in CookieNames |-> 1]}}

Request(method, path, params) == [method |-> method, path |-> path, params |-> params]

----------------------------------------------------------------------------
(* Outcomes *)

\* a returned value; body > 0 names the response whose parsed JSON body is
\* returned (the body of the k-th GET of the call)
Ok(value, body) ==
    [kind |-> "ok", value |-> value, msg |-> "", status |-> 0, endpoint |-> "",
     body |-> body]

\* a raised exception: its class, its message, and the status code and
\* endpoint it carries (0 and "" when it carries none)
Raise(type, msg, status, endpoint) ==
    [kind |-> "error", value |-> type, msg |-> msg, status |-> status,
     endpoint |-> endpoint, body |-> 0]

NoResult ==
    [kind |-> "none", value |-> "", msg |-> "", status |-> 0, endpoint |-> "",
     body |-> 0]

MissingTokenMsg == "Session missing access token. Must sign in first."
SessionExpiredMsg == "Session expired. Please login again."
BadCredentialsMsg == "Authentication failed. Check your email and password."
LoginStatusMsg == "Login failed with status"
UserLookupMsg == "Failed to fetch user information"

NoCall == [op |-> "none", session |-> "auth", endpoint |-> "", params |-> NoParams,
           via |-> "", log |-> <<>>, gets |-> <<>>, auth |-> <<>>]

\* frame of a caller outside any list operation: the kind of list
\* operation, the object it is called on (0: the Workspace), its
\* has_raster argument, whether a worker runs it, the items of
\* response_data, the collection returned and the events the worker emitted
NoFrame == [kind |-> "", target |-> 0, hasRaster |-> FALSE, worker |-> FALSE,
            items |-> <<>>, returned |-> <<>>, events |-> <<>>]

\* history: overlap[p] = callers inside make_get_request at some time
\* during the make_get_request of the current operation of p; expired = sessions on which a call ended with the
\* session-expired error; late = callers whose current operation began on
\* an expired session
NoHist == [overlap |-> [p \in Procs |-> {}], expired |-> {}, late |-> {}]

----------------------------------------------------------------------------
(* Initial state: Auth.__init__ made a fresh session, nothing else happened *)

Init ==
    /\ baseUrl \in BaseUrls
    /\ \E j \in ExtJars : jar = [s \in Sessions |-> IF s = "auth" THEN {} ELSE j]
    /\ apiKey = [s \in Sessions |-> "unset"]
    /\ clients = {}
    /\ pc = [p \in Procs |-> IF p = "w1" THEN "idle" ELSE "off"]
    /\ call = [p \in Procs |-> NoCall]
    /\ result = [p \in Procs |-> NoResult]
    /\ objects = <<>>
    /\ frame = [p \in Procs |-> NoFrame]
    /\ hist = NoHist

\* an operation of p ends with outcome r; inside a list operation the
\* caller goes on with the outcome of make_get_request
Finish(p, r) ==
    /\ pc' = [pc EXCEPT ![p] = IF call[p].op = "list" THEN "list_map" ELSE "idle"]
    /\ result' = [result EXCEPT ![p] = r]

\* p starts operation c and is then at position at
Start(p, c, at) ==
    /\ pc[p] = "idle"
    /\ pc' = [pc EXCEPT ![p] = at]
    /\ call' = [call EXCEPT ![p] = c]
    /\ result' = [result EXCEPT ![p] = NoResult]

----------------------------------------------------------------------------
(* APIClient.__init__ and Workspace.__init__ *)

\* variant: the check skips expired cookies
ClientAcceptsUnexpired(j) == \E c \in j : c.name = "access_token" /\ ~c.expired

\* variant: any cookie at all satisfies the check
ClientAcceptsAnyCookie(j) == j # {}

\* the check of APIClient.__init__
ClientAccepts(j) == HasCookie(j, "access_token")

APIClientInit(p, s, via) ==
    /\ pc[p] = "idle"
    /\ call' = [call EXCEPT ![p] = [NoCall EXCEPT !.op = "construct", !.session = s, !.via = via]]
    /\ IF ClientAccepts(jar[s])
       THEN /\ clients' = clients \cup {s}
            /\ Finish(p, Ok("client", 0))
       ELSE /\ clients' = clients
            /\ Finish(p, Raise("ValueError", MissingTokenMsg, 0, ""))
    /\ UNCHANGED <<baseUrl, jar, apiKey>>

----------------------------------------------------------------------------
(* Auth.login *)

\* variant: the access_token cookie alone decides, whatever the status
LoginAcceptedAnyStatus(r) == r.cookies["access_token"] # 0

\* line 47: the token response is a successful login
LoginAccepted(r) == r.status = 200 /\ r.cookies["access_token"] # 0

\* lines 49-64: the token cookies of the response, stored scoped to the host
StoreTokens(j, host, cookies) ==
    LET j1 == SetCookie(j, ScopedCookie(host, "access_token", cookies["access_token"]))
    IN  IF cookies["refresh_token"] # 0
        THEN SetCookie(j1, ScopedCookie(host, "refresh_token", cookies["refresh_token"]))
        ELSE j1

\* variant: 401 is reported like any other status
LoginFailureGeneric(r) == Raise("ValueError", LoginStatusMsg, r.status, "")

\* lines 77-80: the error raised for a token response that is no successful
\* login
LoginFailure(r) ==
    IF r.status = 401
    THEN Raise("ValueError", BadCredentialsMsg, 0, "")
    ELSE Raise("ValueError", LoginStatusMsg, r.status, "")

\* lines 41-44: requests.post(url, data=credentials)
LoginStart(p) ==
    /\ Start(p, [NoCall EXCEPT !.op = "login", !.session = "auth",
                               !.log = <<Request("POST", TokenEndpoint, NoParams)>>],
             "login_token")
    /\ UNCHANGED <<baseUrl, jar, apiKey, clients>>

\* lines 47-80: the token response arrives
LoginToken(p, r) ==
    /\ pc[p] = "login_token"
    /\ call' = [call EXCEPT ![p].auth = Append(@, r),
                            ![p].log = IF ~r.fail /\ LoginAccepted(r)
                                       THEN Append(@, Request("GET", UserEndpoint, NoParams))
                                       ELSE @]
    /\ IF r.fail
       THEN /\ Finish(p, Raise("ConnectionError", "", 0, TokenEndpoint))
            /\ jar' = jar
       ELSE IF LoginAccepted(r)
       THEN /\ jar' = [jar EXCEPT !["auth"] = StoreTokens(@, Hostname(baseUrl), r.cookies)]
            /\ pc' = [pc EXCEPT ![p] = "login_user"]
            /\ result' = result
       ELSE /\ Finish(p, LoginFailure(r))
            /\ jar' = jar
    /\ UNCHANGED <<baseUrl, apiKey, clients>>

\* lines 67-75: the current-user response arrives; key is the
\* api_access_token of the user data ("" when missing or empty)
LoginUser(p, r, key) ==
    /\ pc[p] = "login_user"
    /\ call' = [call EXCEPT ![p].gets = Append(@, r)]
    /\ IF r.fail
       THEN /\ Finish(p, Raise("ConnectionError", "", 0, UserEndpoint))
            /\ apiKey' = apiKey
       ELSE IF r.status = 200
       THEN IF r.json
            THEN /\ apiKey' = IF key # "" THEN [apiKey EXCEPT !["auth"] = key] ELSE apiKey
                 /\ Finish(p, Ok("session", 0))
            ELSE /\ Finish(p, Raise("JSONDecodeError", "", 0, UserEndpoint))
                 /\ apiKey' = apiKey
       ELSE /\ Finish(p, Raise("ValueError", UserLookupMsg, 0, ""))
            /\ apiKey' = apiKey
    /\ UNCHANGED <<baseUrl, jar, clients>>

----------------------------------------------------------------------------
(* APIClient._refresh_access_token *)

\* variant: the refresh is attempted whatever the jar holds
CanRefreshAlways(j) == TRUE

\* lines 118-119: without a refresh_token cookie nothing is sent
CanRefresh(j) == HasCookie(j, "refresh_token")

\* variant: every 2xx answer counts as a refresh
RefreshSucceededAny2xx(r) == ~r.fail /\ r.status >= 200 /\ r.status < 300

\* lines 122-140: the value returned once the POST has been answered or has
\* raised
RefreshSucceeded(r) == ~r.fail /\ r.status = 200

\* lines 126-136: the cookies of a 200 refresh response, stored scoped to
\* the host
StoreRefreshed(j, host, cookies) ==
    LET j1 == IF cookies["access_token"] # 0
              THEN SetCookie(j, ScopedCookie(host, "access_token", cookies["access_token"]))
              ELSE j
    IN  IF cookies["refresh_token"] # 0
        THEN SetCookie(j1, ScopedCookie(host, "refresh_token", cookies["refresh_token"]))
        ELSE j1

\* the jar after the refresh POST was answered by r
AfterRefresh(j, host, r) ==
    IF RefreshSucceeded(r) THEN StoreRefreshed(j, host, r.cookies) ELSE j

\* a direct call of _refresh_access_token
RefreshStart(p, s) ==
    /\ s \in clients
    /\ IF CanRefresh(jar[s])
       THEN Start(p, [NoCall EXCEPT !.op = "refresh", !.session = s,
                                   !.log = <<Request("POST", RefreshEndpoint, NoParams)>>],
                  "refresh_wait")
       ELSE /\ pc[p] = "idle"
            /\ call' = [call EXCEPT ![p] = [NoCall EXCEPT !.op = "refresh", !.session = s]]
            /\ Finish(p, Ok("False", 0))
    /\ UNCHANGED <<baseUrl, jar, apiKey, clients>>

RefreshDone(p, r) ==
    /\ pc[p] = "refresh_wait"
    /\ call' = [call EXCEPT ![p].auth = Append(@, r)]
    /\ jar' = [jar EXCEPT ![call[p].session] = AfterRefresh(@, Hostname(baseUrl), r)]
    /\ Finish(p, Ok(IF RefreshSucceeded(r) THEN "True" ELSE "False", 0))
    /\ UNCHANGED <<baseUrl, apiKey, clients>>

----------------------------------------------------------------------------
(* APIClient.make_get_request *)

\* line 148: a 401 that triggers the refresh
NeedsRefresh(status, endpoint) == status = 401 /\ endpoint # RefreshEndpoint

\* variant: only server errors raise
RaisesForServerError(status) == status >= 500 /\ status < 600

\* response.raise_for_status(): raises for the statuses 400..599
RaisesForStatus(status) == status >= 400 /\ status < 600

\* variant: the retry drops the keyword arguments
RetryRequestBare(c) == Request("GET", c.endpoint, NoParams)

\* line 150: the retried request
RetryRequest(c) == Request("GET", c.endpoint, c.params)

\* lines 155-156 applied to the k-th response r of call c
Conclude(c, r, k) ==
    IF RaisesForStatus(r.status)
    THEN Raise("HTTPError", "", r.status, c.endpoint)
    ELSE IF r.json THEN Ok("json", k)
    ELSE Raise("JSONDecodeError", "", 0, c.endpoint)

\* lines 144-145: the first GET is sent
GetStart(p, s, e, ps) ==
    /\ s \in clients
    /\ Start(p, [NoCall EXCEPT !.op = "get", !.session = s, !.endpoint = e, !.params = ps,
                               !.log = <<Request("GET", e, ps)>>],
             "get_first")
    /\ UNCHANGED <<baseUrl, jar, apiKey, clients>>

\* lines 145-156: the first response arrives
GetFirst(p, r) ==
    LET c == call[p] IN
    /\ pc[p] = "get_first"
    /\ IF r.fail
       THEN /\ Finish(p, Raise("ConnectionError", "", 0, c.endpoint))
            /\ call' = [call EXCEPT ![p].gets = Append(@, r)]
            /\ jar' = jar
       ELSE IF NeedsRefresh(r.status, c.endpoint)
       THEN IF CanRefresh(jar[c.session])
            THEN /\ pc' = [pc EXCEPT ![p] = "get_refresh"]
                 /\ call' = [call EXCEPT ![p].gets = Append(@, r),
                                         ![p].log = Append(@, Request("POST", RefreshEndpoint, NoParams))]
                 /\ UNCHANGED <<jar, result>>
            ELSE /\ jar' = [jar EXCEPT ![c.session] = {}]
                 /\ call' = [call EXCEPT ![p].gets = Append(@, r)]
                 /\ Finish(p, Raise("ValueError", SessionExpiredMsg, 0, ""))
       ELSE /\ Finish(p, Conclude(c, r, 1))
            /\ call' = [call EXCEPT ![p].gets = Append(@, r)]
            /\ jar' = jar
    /\ UNCHANGED <<baseUrl, apiKey, clients>>

\* lines 149-153: the refresh POST is answered
GetRefresh(p, r) ==
    LET c == call[p] IN
    /\ pc[p] = "get_refresh"
    /\ IF RefreshSucceeded(r)
       THEN /\ jar' = [jar EXCEPT ![c.session] = AfterRefresh(@, Hostname(baseUrl), r)]
            /\ call' = [call EXCEPT ![p].auth = Append(@, r),
                                    ![p].log = Append(@, RetryRequest(c))]
            /\ pc' = [pc EXCEPT ![p] = "get_retry"]
            /\ result' = result
       ELSE /\ jar' = [jar EXCEPT ![c.session] = {}]
            /\ call' = [call EXCEPT ![p].auth = Append(@, r)]
            /\ Finish(p, Raise("ValueError", SessionExpiredMsg, 0, ""))
    /\ UNCHANGED <<baseUrl, apiKey, clients>>

\* variant: a 401 on the retried request starts another refresh
GetRetryRefreshesAgain(p, r) ==
    LET c == call[p] IN
    /\ pc[p] = "get_retry"
    /\ IF ~r.fail /\ NeedsRefresh(r.status, c.endpoint)
       THEN /\ pc' = [pc EXCEPT ![p] = "get_refresh"]
            /\ call' = [call EXCEPT ![p].gets = Append(@, r),
                                    ![p].log = Append(@, Request("POST", RefreshEndpoint, NoParams))]
            /\ result' = result
       ELSE /\ call' = [call EXCEPT ![p].gets = Append(@, r)]
            /\ IF r.fail
               THEN Finish(p, Raise("ConnectionError", "", 0, c.endpoint))
               ELSE Finish(p, Conclude(c, r, 2))
    /\ UNCHANGED <<baseUrl, jar, apiKey, clients>>

\* variant: a 401 on the retried request clears the cookie store
GetRetryClears(p, r) ==
    LET c == call[p] IN
    /\ pc[p] = "get_retry"
    /\ call' = [call EXCEPT ![p].gets = Append(@, r)]
    /\ jar' = IF ~r.fail /\ r.status = 401 THEN [jar EXCEPT ![c.session] = {}] ELSE jar
    /\ IF r.fail
       THEN Finish(p, Raise("ConnectionError", "", 0, c.endpoint))
       ELSE Finish(p, Conclude(c, r, 2))
    /\ UNCHANGED <<baseUrl, apiKey, clients>>

\* lines 150, 155-156: the retried GET is answered
GetRetry(p, r) ==
    LET c == call[p] IN
    /\ pc[p] = "get_retry"
    /\ call' = [call EXCEPT ![p].gets = Append(@, r)]
    /\ IF r.fail
       THEN Finish(p, Raise("ConnectionError", "", 0, c.endpoint))
       ELSE Finish(p, Conclude(c, r, 2))
    /\ UNCHANGED <<baseUrl, jar, apiKey, clients>>

----------------------------------------------------------------------------
(* Resource objects: Project, Flight, DataProduct *)

\* numbers of objects, of items of one response and of tokens of a date
MaxObjects == 2
MaxItems == 2
MaxDateLen == 3

\* the ids the server uses; 0 stands for a field the server did not send
Ids == {1, 2}

\* lines 170, 200 and 236: the endpoints of the three list operations
FlightsEndpoint(id) ==
    CASE id = 1 -> "/api/v1/projects/1/flights"
      [] id = 2 -> "/api/v1/projects/2/flights"

DataProductsEndpoint(project_id, id) ==
    CASE project_id = 1 /\ id = 1 -> "/api/v1/projects/1/flights/1/data_products"
      [] project_id = 1 /\ id = 2 -> "/api/v1/projects/1/flights/2/data_products"
      [] project_id = 2 /\ id = 1 -> "/api/v1/projects/2/flights/1/data_products"
      [] project_id = 2 /\ id = 2 -> "/api/v1/projects/2/flights/2/data_products"

\* an attribute value of a server record: absent, None, a string (a sequence
\* of tokens) or a number
Attr(kind, text) == [kind |-> kind, text |-> text]

NoAttr == Attr("absent", <<>>)

\* the tokens of a date string; "T" is the letter T, the others hold none
DateTokens == {"2024-06-10", "T", "12:34:56", " "}

IsoDateTime == Attr("str", <<"2024-06-10", "T", "12:34:56">>)

DateAttrs ==
    {NoAttr, Attr("None", <<>>), Attr("int", <<>>)} \cup
    {Attr("str", t) : t \in UNION {[1..n -> DateTokens] : n \in 0..MaxDateLen}}

\* str.split('T')[0]: the part before the first T
RECURSIVE BeforeT(_)
BeforeT(text) ==
    IF text = <<>> \/ Head(text) = "T" THEN <<>>
    ELSE <<Head(text)>> \o BeforeT(Tail(text))

\* variant: the value is kept as the server sent it
NormalizeDateKeeps(a) == a

\* lines 229-232: a non-empty string is cut at its first T, anything else
\* is kept
NormalizeDate(a) ==
    IF a.kind = "str" /\ a.text # <<>> THEN Attr("str", BeforeT(a.text)) ELSE a

\* what the server sends for one item of a list
Item(id, project_id, date) == [id |-> id, project_id |-> project_id, date |-> date]

\* the parsed body of the answer to a list request: a list of items, or
\* something the constructors cannot take (wellformed = FALSE)
Data(items) == [wellformed |-> TRUE, items |-> items]

Malformed == [wellformed |-> FALSE, items |-> <<>>]

SeqsUpTo(S, n) == UNION {[1..k -> S] : k \in 0..n}

ListItems(kind) ==
    IF kind = "flights"
    THEN {Item(id, pid, IsoDateTime) : id \in Ids, pid \in {0} \cup Ids}
    ELSE {Item(id, 0, NoAttr) : id \in Ids}

ListData(kind) == {Malformed} \cup {Data(s) : s \in SeqsUpTo(ListItems(kind), MaxItems)}

\* lines 193-196, 223-232, 258-261: the object built from item d by the
\* list operation of the given kind on object t (0: the Workspace); raw is
\* the acquisition_date the server sent
MakeChild(kind, d, t) ==
    [kind |-> CASE kind = "projects" -> "Project"
                [] kind = "flights" -> "Flight"
                [] kind = "data_products" -> "DataProduct",
     id |-> d.id,
     project_id |-> d.project_id,
     acquisition_date |-> IF kind = "flights" THEN NormalizeDate(d.date) ELSE d.date,
     raw |-> d.date,
     parent |-> t]

\* lines 171 and 201: the query parameters of get_projects and get_flights
HasRasterAlways(has_raster) == {<<"has_raster", has_raster>>}

HasRasterParams(has_raster) ==
    IF has_raster THEN {<<"has_raster", has_raster>>} ELSE {}

\* the kind of object each list operation is called on
TargetKind(kind) ==
    CASE kind = "projects" -> "Workspace"
      [] kind = "flights" -> "Project"
      [] kind = "data_products" -> "Flight"

ListKinds == {"projects", "flights", "data_products"}

IsTarget(kind, t) ==
    IF kind = "projects" THEN t = 0
    ELSE t \in DOMAIN objects /\ objects[t].kind = TargetKind(kind)

\* variant: the endpoint names the Project the Flight was listed from
DataProductsPathOfParent(f) ==
    IF f.parent = 0 THEN 0 ELSE objects[f.parent].id

\* line 236: the project id in the data products endpoint is the Flight's
\* own project_id attribute
DataProductsPath(f) == f.project_id

\* lines 170-173, 200-203, 236-238: endpoint and parameters of the request
ListRequest(kind, t, has_raster) ==
    CASE kind = "projects" ->
            Request("GET", ProjectsEndpoint, HasRasterParams(has_raster))
      [] kind = "flights" ->
            Request("GET", FlightsEndpoint(objects[t].id), HasRasterParams(has_raster))
      [] kind = "data_products" ->
            Request("GET", DataProductsEndpoint(DataProductsPath(objects[t]), objects[t].id),
                    NoParams)

\* where a list operation leaves its caller: a worker run goes on to emit
AfterList(p) == IF frame[p].worker THEN "emit" ELSE "idle"

\* get_projects / get_flights / get_data_products called on object t, by a
\* worker's run (worker = TRUE, lines 37/56/75 of d2s_browser_workers.py) or directly;
\* a Flight without project_id raises AttributeError before any request
ListStart(p, kind, t, has_raster, worker) ==
    /\ "auth" \in clients
    /\ pc[p] = "idle"
    /\ IsTarget(kind, t)
    /\ kind = "data_products" => ~has_raster
    /\ (worker /\ kind # "data_products") => has_raster
    /\ frame' = [frame EXCEPT ![p] =
                    [kind |-> kind, target |-> t, hasRaster |-> has_raster,
                     worker |-> worker, items |-> <<>>, returned |-> <<>>,
                     events |-> <<>>]]
    /\ IF kind = "data_products" /\ DataProductsPath(objects[t]) = 0
       THEN /\ pc' = [pc EXCEPT ![p] = IF worker THEN "emit" ELSE "idle"]
            /\ call' = [call EXCEPT ![p] = [NoCall EXCEPT !.op = "list", !.session = "auth"]]
            /\ result' = [result EXCEPT ![p] = Raise("AttributeError", "", 0, "")]
       ELSE LET req == ListRequest(kind, t, has_raster) IN
            Start(p, [NoCall EXCEPT !.op = "list", !.session = "auth",
                                    !.endpoint = req.path, !.params = req.params,
                                    !.log = <<req>>],
                  "get_first")
    /\ UNCHANGED <<baseUrl, jar, apiKey, clients, objects>>

\* variant: an object already made for the same item of the same parent is
\* handed out again
ChildIndexCached(objs, n, i, child) ==
    IF \E j \in DOMAIN objs : objs[j] = child
    THEN CHOOSE j \in DOMAIN objs : objs[j] = child
    ELSE n + i

\* lines 175-178, 205-208, 240-243: the i-th child is a newly made object
ChildIndex(objs, n, i, child) == n + i

\* lines 173-180, 203-210, 238-245: make_get_request has ended; its error
\* goes on to the caller, its data becomes a collection of new objects
ListMap(p, data) ==
    LET f == frame[p]
        children == [i \in DOMAIN data.items |-> MakeChild(f.kind, data.items[i], f.target)]
        n == Len(objects)
    IN
    /\ pc[p] = "list_map"
    /\ pc' = [pc EXCEPT ![p] = AfterList(p)]
    /\ IF result[p].kind = "error"
       THEN /\ data = Data(<<>>)
            /\ UNCHANGED <<result, objects, frame>>
       ELSE IF ~data.wellformed
       THEN /\ result' = [result EXCEPT ![p] = Raise("TypeError", "", 0, call[p].endpoint)]
            /\ UNCHANGED <<objects, frame>>
       ELSE /\ n + Len(children) <= MaxObjects
            /\ result' = [result EXCEPT ![p] = Ok("collection", result[p].body)]
            /\ frame' = [frame EXCEPT
                            ![p].items = data.items,
                            ![p].returned =
                                [i \in DOMAIN children |->
                                    ChildIndex(objects, n, i, children[i])]]
            /\ objects' = objects \o children
    /\ UNCHANGED <<baseUrl, jar, apiKey, clients, call>>

\* the signal a worker emits for the outcome of its list operation: the
\* collection, or str(e)
Event(r, returned) ==
    IF r.kind = "ok"
    THEN [signal |-> "finished", list |-> returned, text |-> <<>>]
    ELSE [signal |-> "error", list |-> <<>>, text |-> <<r.msg, r.status, r.endpoint>>]

\* variant: the error signal follows the finished signal
EmittedBoth(r, returned) ==
    <<Event(r, returned),
      [signal |-> "error", list |-> <<>>, text |-> <<r.msg, r.status, r.endpoint>>]>>

\* lines 38-41, 57-60, 76-79 of the workers: one signal per run
Emitted(r, returned) == <<Event(r, returned)>>

\* the run method of a worker emits and returns
WorkerEmit(p) ==
    /\ pc[p] = "emit"
    /\ pc' = [pc EXCEPT ![p] = "idle"]
    /\ frame' = [frame EXCEPT ![p].events = @ \o Emitted(result[p], frame[p].returned)]
    /\ UNCHANGED <<baseUrl, jar, apiKey, clients, call, result, objects>>

----------------------------------------------------------------------------
(* Specification of the client: one caller, no resource objects *)

Rest == <<objects, frame, hist>>

Next ==
    \E p \in Procs :
        \/ \E s \in Sessions, via \in {"APIClient", "Workspace"} :
              APIClientInit(p, s, via) /\ UNCHANGED Rest
        \/ LoginStart(p) /\ UNCHANGED Rest
        \/ \E r \in AuthResponses : LoginToken(p, r) /\ UNCHANGED Rest
        \/ \E r \in GetResponses, key \in {"", "k1"} : LoginUser(p, r, key) /\ UNCHANGED Rest
        \/ \E s \in Sessions : RefreshStart(p, s) /\ UNCHANGED Rest
        \/ \E r \in AuthResponses : RefreshDone(p, r) /\ UNCHANGED Rest
        \/ \E s \in Sessions, e \in Endpoints, ps \in ParamSets :
              GetStart(p, s, e, ps) /\ UNCHANGED Rest
        \/ \E r \in GetResponses : GetFirst(p, r) /\ UNCHANGED Rest
        \/ \E r \in AuthResponses : GetRefresh(p, r) /\ UNCHANGED Rest
        \/ \E r \in GetResponses : GetRetry(p, r) /\ UNCHANGED Rest

Spec == Init /\ [][Next]_vars

----------------------------------------------------------------------------
(* Specification of the resource hierarchy: one caller, signed in, lists   *)
(* projects, flights and data products, directly or through a worker       *)

\* the base URL of the signed-in specifications
SignedInUrl == "https://D2S.Example.org"

\* the jars a successful login leaves in a fresh session (lines 49-64)
SignedInJars ==
    {StoreTokens({}, Hostname(SignedInUrl), c) :
        c \in {k \in CookieSets : k["access_token"] = 1 /\ k["refresh_token"] \in {0, 1}}}

\* the answers the server gives in the signed-in specifications
ListGetResponses == {r \in GetResponses : r.fail \/ r.status \in {200, 401}}

ListAuthResponses ==
    {r \in AuthResponses :
        \/ r.fail
        \/ r.status = 200 /\ r.cookies \in {NoCookies, [n \in CookieNames |-> MaxToken]}
        \/ r.status = 401 /\ r.cookies = NoCookies}

\* state after Auth.login succeeded and Workspace(session) was constructed
SignedIn ==
    /\ baseUrl = SignedInUrl
    /\ jar \in {[s \in Sessions |-> IF s = "auth" THEN j ELSE {}] : j \in SignedInJars}
    /\ apiKey = [s \in Sessions |-> IF s = "auth" THEN "k1" ELSE "unset"]
    /\ clients = {"auth"}
    /\ call = [p \in Procs |-> NoCall]
    /\ result = [p \in Procs |-> NoResult]
    /\ frame = [p \in Procs |-> NoFrame]
    /\ hist = NoHist

ListInit ==
    /\ SignedIn
    /\ pc = [p \in Procs |-> IF p = "w1" THEN "idle" ELSE "off"]
    /\ objects = <<>>

ListNext ==
    \E p \in Procs :
        \/ \E kind \in ListKinds, t \in 0..MaxObjects, hr \in BOOLEAN, w \in BOOLEAN :
              ListStart(p, kind, t, hr, w) /\ UNCHANGED hist
        \/ \E r \in ListGetResponses : GetFirst(p, r) /\ UNCHANGED Rest
        \/ \E r \in ListAuthResponses : GetRefresh(p, r) /\ UNCHANGED Rest
        \/ \E r \in ListGetResponses : GetRetry(p, r) /\ UNCHANGED Rest
        \/ \E data \in ListData(frame[p].kind) : ListMap(p, data) /\ UNCHANGED hist
        \/ WorkerEmit(p) /\ UNCHANGED hist

SpecList == ListInit /\ [][ListNext]_vars

----------------------------------------------------------------------------
(* Specification of Flight construction alone: Flight(client, **kwargs)    *)
(* with every acquisition_date value                                       *)

\* number of Flight objects constructed
MaxFlights == 1

DateInit ==
    /\ SignedIn
    /\ pc = [p \in Procs |-> IF p = "w1" THEN "idle" ELSE "off"]
    /\ objects = <<>>

\* lines 223-232: Flight.__init__ with the given acquisition_date
FlightInit(date) ==
    /\ Len(objects) < MaxFlights
    /\ objects' = Append(objects, MakeChild("flights", Item(1, 1, date), 0))
    /\ UNCHANGED <<baseUrl, jar, apiKey, clients, pc, call, result, frame, hist>>

DateNext == \E date \in DateAttrs : FlightInit(date)

SpecDate == DateInit /\ [][DateNext]_vars

----------------------------------------------------------------------------
(* Specification of concurrent workers: two worker threads, signed in,     *)
(* run list operations on resources that share one APIClient and session   *)

\* p is inside an operation
InFlight(p) == pc[p] \notin {"idle", "off"}

\* p is inside make_get_request
InGet(p) == pc[p] \in {"get_first", "get_refresh", "get_retry"}

\* p starts an operation in this step
Begins(p) ==
    pc[p] = "idle" /\ (pc'[p] # pc[p] \/ call'[p] # call[p] \/ result'[p] # result[p])

\* the session a call of p ends on with the session-expired error in this step
Expires(p, s) ==
    /\ InFlight(p)
    /\ call[p].session = s
    /\ result'[p] # result[p]
    /\ result'[p] = Raise("ValueError", SessionExpiredMsg, 0, "")

\* the history of the step taken
Observe ==
    hist' =
        [overlap |->
            [p \in Procs |->
                LET kept == IF Begins(p) THEN {} ELSE hist.overlap[p]
                IN  IF InGet(p) \/ InGet(p)'
                    THEN kept \cup {q \in Procs \ {p} : InGet(q) \/ InGet(q)'}
                    ELSE kept],
         expired |-> hist.expired \cup {s \in Sessions : \E p \in Procs : Expires(p, s)},
         late |-> {p \in Procs :
                      IF Begins(p) THEN call'[p].session \in hist.expired
                      ELSE p \in hist.late}]

\* the answers the server gives to concurrent workers
ConcGetResponses == {r \in GetResponses : ~r.fail /\ r.status \in {200, 401} /\ (r.status = 200 => r.json)}

ConcAuthResponses == {r \in ListAuthResponses : ~r.fail}

\* state after login, Workspace(session) and one get_projects that returned
\* Project 1; both workers are ready to run
ConcInit ==
    /\ SignedIn
    /\ pc = [p \in Procs |-> "idle"]
    /\ objects = <<MakeChild("projects", Item(1, 0, NoAttr), 0)>>

ConcNext ==
    \E p \in Procs :
        \/ \E kind \in {"projects", "flights"}, t \in 0..1 :
              ListStart(p, kind, t, TRUE, TRUE) /\ Observe
        \/ \E r \in ConcGetResponses : GetFirst(p, r) /\ Observe /\ UNCHANGED <<objects, frame>>
        \/ \E r \in ConcAuthResponses : GetRefresh(p, r) /\ Observe /\ UNCHANGED <<objects, frame>>
        \/ \E r \in ConcGetResponses : GetRetry(p, r) /\ Observe /\ UNCHANGED <<objects, frame>>
        \/ ListMap(p, Data(<<>>)) /\ Observe
        \/ WorkerEmit(p) /\ Observe
        \/ APIClientInit(p, "auth", "Workspace") /\ Observe /\ UNCHANGED <<objects, frame>>

SpecConc == ConcInit /\ [][ConcNext]_vars

----------------------------------------------------------------------------
(* Properties *)

Last(s) == s[Len(s)]

\* number of requests of a log with the given method
Sent(log, method) == Cardinality({i \in DOMAIN log : log[i].method = method})

\* caller p takes a step of its current operation
Moves(p) == pc'[p] # pc[p] \/ call'[p] # call[p] \/ result'[p] # result[p]

SessionExpired == Raise("ValueError", SessionExpiredMsg, 0, "")
ConfigError == Raise("ValueError", MissingTokenMsg, 0, "")

\* position of a make_get_request call: it only moves forward
Rank(at) ==
    CASE at = "get_first" -> 1
      [] at = "get_refresh" -> 2
      [] at = "get_retry" -> 3
      [] OTHER -> 4

C1Bounded ==
    \A p \in Procs : call[p].op = "get" =>
        /\ Sent(call[p].log, "POST") <= 1
        /\ Sent(call[p].log, "GET") <= 2
        /\ Len(call[p].log) = Sent(call[p].log, "POST") + Sent(call[p].log, "GET")
        /\ pc[p] \in {"idle", "get_first", "get_refresh", "get_retry"}
        /\ pc[p] = "idle" =>
              \/ result[p].kind = "ok" /\ result[p].body \in {1, 2}
              \/ result[p].kind = "error"

C1Forward ==
    \A p \in Procs :
        (call[p].op = "get" /\ pc[p] # "idle" /\ pc'[p] # pc[p])
            => (call'[p].op = "get" /\ Rank(pc'[p]) > Rank(pc[p]))

\* C1: every make_get_request call sends at most one refresh POST and at
\* most two GETs, every step moves it forward (first GET, refresh, retry,
\* end), and it ends with a returned body or an error.
C1_BoundedRetry == []C1Bounded /\ [][C1Forward]_vars

\* a call that went through refresh and retry and ended
C1_Witness ==
    \E p \in Procs :
        /\ call[p].op = "get" /\ pc[p] = "idle"
        /\ Sent(call[p].log, "POST") = 1 /\ Sent(call[p].log, "GET") = 2
        /\ Last(call[p].gets).status = 401

\* the refresh of the call of p returned false in this step: no
\* refresh_token cookie, or the POST raised or was answered other than 200
C2RefreshFalse(p) ==
    LET c == call[p] IN
    /\ c.op = "get" /\ Moves(p)
    /\ \/ /\ pc[p] = "get_first"
          /\ ~Last(call'[p].gets).fail
          /\ Last(call'[p].gets).status = 401
          /\ c.endpoint # RefreshEndpoint
          /\ ~\E k \in jar[c.session] : k.name = "refresh_token"
       \/ /\ pc[p] = "get_refresh"
          /\ Last(call'[p].auth).fail \/ Last(call'[p].auth).status # 200

C2Step ==
    \A p \in Procs : C2RefreshFalse(p) =>
        /\ pc'[p] = "idle"
        /\ result'[p] = SessionExpired
        /\ call'[p].log = call[p].log
        /\ Sent(call'[p].log, "GET") = 1
        /\ jar'[call[p].session] = {}
        /\ pc[p] = "get_first" => Sent(call'[p].log, "POST") = 0

\* C2: when a 401 on an endpoint other than the refresh endpoint is followed
\* by a refresh that returns false, the call raises the session-expired
\* error, sends no retry GET and leaves the cookie jar empty; without a
\* refresh_token cookie no refresh POST is sent.
C2_RefreshFailureExpiresSession == [][C2Step]_vars

\* a 401 on a session that had cookies but no refresh_token
C2_Witness ==
    \E p \in Procs :
        /\ call[p].op = "get" /\ pc[p] = "idle"
        /\ result[p] = SessionExpired
        /\ call[p].log = <<Request("GET", ProjectsEndpoint, RasterParams)>>
        /\ jar[call[p].session] = {}

\* C3: a GET answered 401, a refresh answered 200 and a retried GET answered
\* 200 with a JSON body: the call returns the body of the retried response,
\* having sent exactly GET, refresh POST, GET, the retry with the endpoint
\* and the query parameters of the first request.
C3_RetryReturnsSecondBody ==
    \A p \in Procs :
        (/\ call[p].op = "get" /\ pc[p] = "idle"
         /\ Len(call[p].gets) = 2 /\ Len(call[p].auth) = 1
         /\ call[p].gets[1].status = 401
         /\ call[p].auth[1].status = 200
         /\ call[p].gets[2].status = 200 /\ call[p].gets[2].json)
        => /\ result[p] = Ok("json", 2)
           /\ call[p].log = <<Request("GET", call[p].endpoint, call[p].params),
                              Request("POST", RefreshEndpoint, NoParams),
                              Request("GET", call[p].endpoint, call[p].params)>>

\* such a call with has_raster=true, on a session that holds both tokens
C3_Witness ==
    \E p \in Procs :
        /\ call[p].op = "get" /\ pc[p] = "idle"
        /\ call[p].params = RasterParams
        /\ Len(call[p].gets) = 2
        /\ call[p].gets[2].status = 200 /\ call[p].gets[2].json
        /\ result[p].body = 2
        /\ \A n \in CookieNames : \E k \in jar[call[p].session] : k.name = n

\* p runs APIClient.__init__ on session s in this step
C4Constructs(p, s) ==
    /\ pc[p] = "idle" /\ pc'[p] = "idle"
    /\ call'[p].op = "construct" /\ call'[p].session = s
    /\ call'[p] # call[p] \/ result'[p] # result[p]

C4Step ==
    \A p \in Procs, s \in Sessions :
        (C4Constructs(p, s) /\ ~\E k \in jar[s] : k.name = "access_token")
            => /\ result'[p] = ConfigError
               /\ call'[p].log = <<>>
               /\ clients' = clients
               /\ jar' = jar

\* C4: constructing an APIClient, directly or through Workspace, on a
\* session without a cookie named access_token raises the missing-token
\* error; no request is sent and no client comes into being.
C4_NoTokenNoClient == [][C4Step]_vars

\* a Workspace refused on a session that holds only a refresh_token
C4_Witness ==
    \E p \in Procs :
        /\ call[p].op = "construct" /\ call[p].via = "Workspace"
        /\ result[p] = ConfigError
        /\ jar[call[p].session] # {}
        /\ call[p].session \notin clients

\* the login of p has ended
LoginEnded(p) == call[p].op = "login" /\ pc[p] = "idle"

C5Returns ==
    \A p \in Procs : LoginEnded(p) =>
        /\ result[p].kind = "ok" =>
              /\ result[p] = Ok("session", 0)
              /\ Len(call[p].auth) = 1 /\ Len(call[p].gets) = 1
              /\ ~call[p].auth[1].fail /\ call[p].auth[1].status = 200
              /\ call[p].auth[1].cookies["access_token"] # 0
              /\ ~call[p].gets[1].fail /\ call[p].gets[1].status = 200
        /\ (/\ Len(call[p].gets) = 1
            /\ ~call[p].gets[1].fail
            /\ call[p].gets[1].status # 200)
              => result[p] = Raise("ValueError", UserLookupMsg, 0, "")

C5Step ==
    \A p \in Procs :
        (/\ call[p].op = "login" /\ pc[p] # "idle"
         /\ pc'[p] = "idle" /\ result'[p].kind = "ok")
        => \E k \in jar'["auth"] :
              /\ k.name = "access_token"
              /\ k.value = call'[p].auth[1].cookies["access_token"]

\* C5: login returns the session only after a 200 token response with an
\* access_token cookie and a 200 current-user response, and the session
\* returned holds the access_token value of that token response; a
\* current-user response other than 200 makes login raise the failed user
\* lookup error.
C5_LoginReturnsSession == []C5Returns /\ [][C5Step]_vars

\* a successful login whose token response carried token 2
C5_Witness ==
    \E p \in Procs :
        /\ LoginEnded(p) /\ result[p] = Ok("session", 0)
        /\ call[p].auth[1].cookies["access_token"] = 2
        /\ \E k \in jar["auth"] : k.name = "access_token" /\ k.value = 2

\* C6: a 401 token response makes login raise the invalid-credentials
\* error, any other status than 200 makes it raise the error carrying that
\* status, and in both cases the current-user endpoint is not requested.
C6_TokenFailure ==
    \A p \in Procs :
        (/\ call[p].op = "login"
         /\ call[p].auth # <<>>
         /\ ~call[p].auth[1].fail
         /\ call[p].auth[1].status # 200)
        => /\ pc[p] = "idle"
           /\ call[p].log = <<Request("POST", TokenEndpoint, NoParams)>>
           /\ call[p].gets = <<>>
           /\ IF call[p].auth[1].status = 401
              THEN result[p] = Raise("ValueError", BadCredentialsMsg, 0, "")
              ELSE result[p] = Raise("ValueError", LoginStatusMsg, call[p].auth[1].status, "")

\* a login refused with 401 although the response carried cookies
C6_Witness ==
    \E p \in Procs :
        /\ LoginEnded(p)
        /\ call[p].auth[1].status = 401
        /\ call[p].auth[1].cookies["access_token"] # 0
        /\ result[p].msg = BadCredentialsMsg

Loopback(host) == host \in {"localhost", "127.0.0.1"}

C8Returns ==
    \A p \in Procs : (call[p].op = "refresh" /\ pc[p] = "idle") =>
        /\ result[p] \in {Ok("True", 0), Ok("False", 0)}
        /\ Len(call[p].log) = Len(call[p].auth)
        /\ result[p] = Ok("True", 0) <=>
              /\ Len(call[p].auth) = 1
              /\ ~call[p].auth[1].fail
              /\ call[p].auth[1].status = 200

C8Step ==
    \A p \in Procs :
        /\ (/\ pc[p] = "idle" /\ call'[p].op = "refresh" /\ Moves(p)
            /\ ~\E k \in jar[call'[p].session] : k.name = "refresh_token")
           => /\ pc'[p] = "idle"
              /\ result'[p] = Ok("False", 0)
              /\ call'[p].log = <<>>
              /\ jar' = jar
        /\ (pc[p] = "get_refresh" /\ Moves(p))
           => (pc'[p] = "get_retry" <=>
                 (~Last(call'[p].auth).fail /\ Last(call'[p].auth).status = 200))

\* C8: _refresh_access_token always returns: false, with nothing sent, when
\* the session has no refresh_token cookie; false when the POST raises or
\* is answered other than 200; true exactly when the POST is answered 200.
C8_RefreshNeverRaises == []C8Returns /\ [][C8Step]_vars

\* a refresh answered 204 returned false
C8_Witness ==
    \E p \in Procs :
        /\ call[p].op = "refresh" /\ pc[p] = "idle"
        /\ Len(call[p].auth) = 1 /\ call[p].auth[1].status = 204
        /\ result[p] = Ok("False", 0)

\* the make_get_request call of p ended on a response: the first one when
\* it was no refreshable 401, the retried one otherwise
HasFinal(p) ==
    /\ call[p].op = "get" /\ pc[p] = "idle"
    /\ call[p].gets # <<>>
    /\ ~Last(call[p].gets).fail
    /\ \/ Len(call[p].gets) = 2
       \/ ~(call[p].gets[1].status = 401 /\ call[p].endpoint # RefreshEndpoint)

Final(p) == Last(call[p].gets)

\* C9 as stated: every final status outside 200..299 ends in the HTTP error
C9_Non2xxRaises ==
    \A p \in Procs :
        (HasFinal(p) /\ ~(Final(p).status >= 200 /\ Final(p).status <= 299))
            => result[p] = Raise("HTTPError", "", Final(p).status, call[p].endpoint)

\* C9 (amended): every final status in 400..599, a second 401 on the retried
\* request included, ends in the HTTP error carrying the status and the
\* endpoint, without a body; a final status below 400 never ends in the
\* HTTP error.
C9_ErrorStatusRaises ==
    \A p \in Procs : HasFinal(p) =>
        /\ (Final(p).status >= 400 /\ Final(p).status <= 599)
              => result[p] = Raise("HTTPError", "", Final(p).status, call[p].endpoint)
        /\ Final(p).status < 400 => result[p].value # "HTTPError"

\* a second 401, on the retried request
C9_Witness ==
    \E p \in Procs :
        /\ HasFinal(p) /\ Len(call[p].gets) = 2
        /\ Final(p).status = 401
        /\ result[p] = Raise("HTTPError", "", 401, ProjectsEndpoint)

C10StepOriginal ==
    \A p \in Procs, s \in Sessions :
        (C4Constructs(p, s) /\ result'[p].kind = "ok")
            => \E k \in jar[s] : k.name = "access_token" /\ ~k.expired

\* C10 as stated: a client is constructed only on a session that holds an
\* access_token cookie that has not expired
C10_OnlyUnexpiredToken == [][C10StepOriginal]_vars

C10Step ==
    \A p \in Procs, s \in Sessions : C4Constructs(p, s) =>
        IF \E k \in jar[s] : k.name = "access_token"
        THEN result'[p] = Ok("client", 0) /\ s \in clients'
        ELSE result'[p] = ConfigError

\* C10 (amended): a client is constructed exactly when the session holds a
\* cookie named access_token, expired or not.
C10_AnyTokenCookie == [][C10Step]_vars

\* a client constructed on a session whose only access_token has expired
C10_Witness ==
    \E p \in Procs :
        /\ call[p].op = "construct" /\ result[p] = Ok("client", 0)
        /\ \E k \in jar[call[p].session] : k.name = "access_token"
        /\ \A k \in jar[call[p].session] : k.name = "access_token" => k.expired

\* the token response of the login of p was accepted (line 47)
TokenTaken(p) ==
    /\ Len(call[p].auth) = 1
    /\ ~call[p].auth[1].fail
    /\ call[p].auth[1].status = 200
    /\ call[p].auth[1].cookies["access_token"] # 0

\* C19: after a failed login the session of the Auth object holds no
\* access_token cookie stored by that login attempt, so that no APIClient
\* can be constructed from the session of an incomplete login.
C19_FailedLoginLeavesNoToken ==
    \A p \in Procs :
        (LoginEnded(p) /\ result[p].kind = "error")
            => ~(/\ TokenTaken(p)
                 /\ \E k \in jar["auth"] :
                       /\ k.name = "access_token"
                       /\ k.value = call[p].auth[1].cookies["access_token"])

\* C20: a successful login leaves the session with exactly the token
\* cookies of its token response: its access_token, and its refresh_token
\* when it sent one, otherwise no refresh_token at all.
C20_LoginReplacesTokens ==
    \A p \in Procs :
        (LoginEnded(p) /\ result[p].kind = "ok")
            => \A n \in CookieNames :
                  {k.value : k \in {c \in jar["auth"] : c.name = n}}
                      = {call[p].auth[1].cookies[n]} \ {0}

\* p is in or has ended a list operation of one of the given kinds that
\* sent a request
Listing(p, kinds) ==
    /\ call[p].op = "list"
    /\ frame[p].kind \in kinds
    /\ call[p].log # <<>>

\* C14: every GET of get_projects and get_flights, the retry after a refresh
\* included, carries has_raster=true when the has_raster argument is true,
\* and no has_raster parameter at all (never has_raster=false) when it is
\* false.
C14_HasRasterParameter ==
    \A p \in Procs :
        Listing(p, {"projects", "flights"}) =>
            \A i \in DOMAIN call[p].log :
                call[p].log[i].method = "GET" =>
                    /\ frame[p].hasRaster => call[p].log[i].params = {<<"has_raster", TRUE>>}
                    /\ ~frame[p].hasRaster => call[p].log[i].params = {}

\* get_flights(has_raster=False) has returned a collection after a refresh
\* and a retry
C14_Witness ==
    \E p \in Procs :
        /\ Listing(p, {"flights"})
        /\ ~frame[p].hasRaster
        /\ pc[p] = "idle"
        /\ result[p].kind = "ok"
        /\ Sent(call[p].log, "GET") = 2

\* p is inside a worker's run
Running(p) == pc[p] \in {"get_first", "get_refresh", "get_retry", "list_map", "emit"}

\* the collection returned to p holds the objects made from the items of
\* the response, in the order of the response
Ordered(p) ==
    /\ Len(frame[p].returned) = Len(frame[p].items)
    /\ \A i \in DOMAIN frame[p].items :
          /\ frame[p].returned[i] \in DOMAIN objects
          /\ objects[frame[p].returned[i]]
                = MakeChild(frame[p].kind, frame[p].items[i], frame[p].target)

\* C12: a run of ProjectsWorker, FlightsWorker or DataProductsWorker emits
\* nothing before its list operation has ended and exactly one signal then:
\* finished with the ordered list of children if the operation returned,
\* error with the text of the exception if it raised; the run makes one
\* list call (at most the two GETs of one make_get_request) and never emits
\* both signals.
C12_OneEventPerRun ==
    \A p \in Procs :
        frame[p].worker =>
            /\ Running(p) => frame[p].events = <<>>
            /\ Sent(call[p].log, "GET") <= 2
            /\ pc[p] = "idle" =>
                  /\ Len(frame[p].events) = 1
                  /\ result[p].kind \in {"ok", "error"}
                  /\ result[p].kind = "ok" =>
                        /\ frame[p].events[1].signal = "finished"
                        /\ frame[p].events[1].list = frame[p].returned
                        /\ Ordered(p)
                  /\ result[p].kind = "error" =>
                        /\ frame[p].events[1].signal = "error"
                        /\ frame[p].events[1].text
                              = <<result[p].msg, result[p].status, result[p].endpoint>>

\* a worker's run has ended with finished and a list of two children whose
\* ids come in the order 2, 1
C12_Witness ==
    \E p \in Procs :
        /\ frame[p].worker
        /\ pc[p] = "idle"
        /\ Len(frame[p].events) = 1
        /\ frame[p].events[1].signal = "finished"
        /\ Len(frame[p].events[1].list) = 2
        /\ objects[frame[p].events[1].list[1]].id = 2
        /\ objects[frame[p].events[1].list[2]].id = 1

\* p sends the first request of a list operation in this step
ListCalled(p) == pc[p] = "idle" /\ pc'[p] = "get_first" /\ call'[p].op = "list"

\* the list operation of p returns its collection in this step
ListReturns(p) == pc[p] = "list_map" /\ result'[p].kind = "ok"

C13Step ==
    \A p \in Procs :
        /\ ListCalled(p) =>
              /\ Len(call'[p].log) = 1
              /\ call'[p].log[1].method = "GET"
              /\ call'[p].gets = <<>>
        /\ ListReturns(p) =>
              /\ Sent(call[p].log, "GET") \in {1, 2}
              /\ Sent(call[p].log, "POST") <= 1
              /\ Sent(call[p].log, "POST") = Sent(call[p].log, "GET") - 1
              /\ \A i \in DOMAIN objects : objects'[i] = objects[i]
              /\ \A i \in DOMAIN frame'[p].returned :
                    /\ frame'[p].returned[i] \in DOMAIN objects' \ DOMAIN objects
                    /\ \A j \in DOMAIN frame'[p].returned :
                          frame'[p].returned[i] = frame'[p].returned[j] => i = j

\* C13: no list operation caches.  Every call sends a new GET of its own
\* (followed by at most one refresh POST and one retry), and the collection
\* it returns holds objects created by this call: none of them existed
\* before, no two of them are the same object, and the objects of earlier
\* calls are left as they were.
C13_NoCaching == [][C13Step]_vars

\* the same list operation was called twice with the same answer: the
\* second collection holds a new object equal in every attribute to an
\* object of the first
C13_Witness ==
    \E p \in Procs :
        /\ call[p].op = "list"
        /\ pc[p] = "idle"
        /\ result[p].kind = "ok"
        /\ Len(frame[p].returned) = 1
        /\ \E i \in DOMAIN objects :
              /\ i < frame[p].returned[1]
              /\ objects[i] = objects[frame[p].returned[1]]

\* every GET of the call of p went to the given path
GetsTo(p, path) ==
    /\ call[p].log # <<>>
    /\ \A i \in DOMAIN call[p].log :
          call[p].log[i].method = "GET" => call[p].log[i].path = path

\* p is in or has ended get_data_products on a Flight
OnFlight(p) == call[p].op = "list" /\ frame[p].kind = "data_products"

\* the Flight p called get_data_products on, and the Project it was listed
\* from
TheFlight(p) == objects[frame[p].target]

TheProject(p) == objects[TheFlight(p).parent]

\* C17 as stated: whatever the server returned for the Flight, the request
\* goes to /api/v1/projects/{P.id}/flights/{flight.id}/data_products, P
\* being the Project the Flight was listed from.
C17_ParentProjectPath ==
    \A p \in Procs :
        OnFlight(p) => GetsTo(p, DataProductsEndpoint(TheProject(p).id, TheFlight(p).id))

\* C17, amended: the request goes to
\* /api/v1/projects/{flight.project_id}/flights/{flight.id}/data_products,
\* project_id being the attribute the server returned for the Flight; the
\* path names P exactly when that attribute equals P.id, and a Flight the
\* server returned without project_id raises AttributeError and sends
\* nothing.
C17_OwnProjectIdPath ==
    \A p \in Procs :
        OnFlight(p) =>
            IF TheFlight(p).project_id = 0
            THEN /\ call[p].log = <<>>
                 /\ result[p] = Raise("AttributeError", "", 0, "")
            ELSE /\ GetsTo(p, DataProductsEndpoint(TheFlight(p).project_id, TheFlight(p).id))
                 /\ (TheFlight(p).project_id = TheProject(p).id
                        <=> GetsTo(p, DataProductsEndpoint(TheProject(p).id, TheFlight(p).id)))

\* get_data_products returned on a Flight whose project_id, as returned by
\* the server, differs from the id of the Project it was listed from
C17_Witness ==
    \E p \in Procs :
        /\ OnFlight(p)
        /\ pc[p] = "idle"
        /\ result[p].kind = "ok"
        /\ TheFlight(p).project_id # 0
        /\ TheFlight(p).project_id # TheProject(p).id

\* the tokens of a string
Tokens(text) == {text[i] : i \in DOMAIN text}

\* short is text up to, and without, its first T
CutAtT(text, short) ==
    \E n \in 0..Len(text) :
        /\ short = SubSeq(text, 1, n)
        /\ "T" \notin Tokens(short)
        /\ n = Len(text) \/ text[n + 1] = "T"

Mutated(s) == jar'[s] # jar[s]

\* a caller on session s handles the answer to a login or refresh POST
DuringLoginOrRefresh(s) ==
    \E p \in Procs :
        /\ Moves(p)
        /\ call[p].session = s
        /\ pc[p] \in {"login_token", "get_refresh", "refresh_wait"}

\* a caller on session s stores the cookies of a successful refresh
StoresRefreshed(s) ==
    \E p \in Procs :
        /\ Moves(p)
        /\ call[p].session = s
        /\ pc[p] \in {"get_refresh", "refresh_wait"}
        /\ RefreshSucceeded(Last(call'[p].auth))
        /\ jar'[s] = StoreRefreshed(jar[s], Hostname(baseUrl), Last(call'[p].auth).cookies)

\* a make_get_request on session s gives up after a 401 it could not
\* refresh, and clears the cookie store
ClearsOnExpiry(s) ==
    \E p \in Procs :
        /\ Moves(p)
        /\ call[p].session = s
        /\ pc[p] \in {"get_first", "get_refresh"}
        /\ result'[p] = SessionExpired
        /\ jar'[s] = {}

BothEnded(p, q) ==
    /\ p # q
    /\ q \in hist.overlap[p]
    /\ p \in hist.overlap[q]
    /\ ~InGet(p)
    /\ ~InGet(q)

\* the first answer to the call of p was 401
Got401(p) == call[p].gets # <<>> /\ call[p].gets[1].status = 401

\* the refresh of the call of p succeeded
Refreshed(p) == call[p].auth # <<>> /\ RefreshSucceeded(call[p].auth[1])

\* C18: when two concurrent make_get_request calls on one session both got
\* 401 and the refresh of at least one of them succeeded, the session holds
\* an access_token cookie once both have ended.
C18_RefreshedTokenSurvives ==
    \A p \in Procs, q \in Procs :
        (BothEnded(p, q) /\ Got401(p) /\ Got401(q) /\ (Refreshed(p) \/ Refreshed(q)))
            => HasCookie(jar[call[p].session], "access_token")

\* C16: once a make_get_request on the shared client has failed with the
\* session-expired error the session stays expired (no login takes place):
\* every make_get_request started afterwards that gets 401 sends no refresh
\* POST and fails with the session-expired error again, and a new APIClient
\* or Workspace on that session fails with the configuration error.
C16_ExpiredStaysExpired ==
    \A p \in hist.late :
        /\ (call[p].op = "list" /\ Got401(p)) =>
              /\ Sent(call[p].log, "POST") = 0
              /\ ~InGet(p) => result[p] = SessionExpired
        /\ (call[p].op = "construct" /\ pc[p] = "idle") => result[p] = ConfigError

====
